---- MODULE Spec2Model ----
(***************************************************************************)
(* A model of the swap execution engine of src/pancakeSwapWeb3.js: the     *)
(* per-address nonce cache (getNextNonce) and the four order operations    *)
(* buyToken, sellToken, buyTokenWithFeeTier and sellTokenWithFeeTier.      *)
(*                                                                         *)
(* JavaScript runs one callback at a time: an async function runs          *)
(* atomically from one await to the next.  Every action below is one such  *)
(* run: it starts where a chain call returns (or throws) and ends at the   *)
(* next await, at a return or at a throw.  Consecutive chain reads that    *)
(* touch neither the nonce cache, the wallet nor a sent transaction are    *)
(* one action, their results drawn together.                               *)
(***************************************************************************)
EXTENDS Integers, Sequences, FiniteSets, TLC

(***************************************************************************)
(* Bounds of the model.                                                    *)
(***************************************************************************)
NumAddrs == 2
NumKeys == 1
NumCalls == 3
MaxChainNonce == 1

Addrs == 1..NumAddrs
\* the addresses of the private keys the orders are called with
KeyAddrs == 1..NumKeys
CallIds == 1..NumCalls

\* nonceCache[address] === undefined
Undefined == -1

(***************************************************************************)
(* TLC's integers are 32 bits wide, the engine's are unbounded (BN).  The  *)
(* two large constants of the price arithmetic are scaled down: 2^96 to    *)
(* 2^Q96Bits and the 18 decimals of BNB to WeiDecimals.  The code's        *)
(* branches test these values for zero and order only.                     *)
(***************************************************************************)
Q96Bits == 2
WeiDecimals == 2
Uint256Bits == 10
MaxAmount == 1

\* FEE_TIERS of utils/constants.js
FEE_LOWEST == 100
FEE_LOW == 500
FEE_MEDIUM == 2500
FEE_HIGH == 10000

\* const feeTiers = [FEE_TIERS.LOWEST, FEE_TIERS.LOW, FEE_TIERS.MEDIUM, FEE_TIERS.HIGH]
FeeTiers == <<FEE_LOWEST, FEE_LOW, FEE_MEDIUM, FEE_HIGH>>

\* web3.utils.toBN('1000000') of validatePancakeV3Pool
MinLiquidity == 1000000
\* expectedOutputAmount = '1000'
MinimalFallback == 1000
\* the gas limit used when estimateGas fails
DefaultGas == 500000
\* safeBN(10000): the divisor of the slippage computation
BpsDivisor == 10000
\* slippagePercent * 100
PercentToBps == 100
\* roughOutputAmount.mul(safeBN(90)).div(safeBN(100))
HaircutNum == 90
HaircutDen == 100

Orders == {1, 2}

AutoKinds == {"buyToken", "sellToken"}
PinnedKinds == {"buyTokenWithFeeTier", "sellTokenWithFeeTier"}
BuyKinds == {"buyToken", "buyTokenWithFeeTier"}
SellKinds == {"sellToken", "sellTokenWithFeeTier"}
Kinds == AutoKinds \cup PinnedKinds


VARIABLES
  nonceCache,     \* the module-level nonceCache object: address -> last nonce issued
  chainPending,   \* the node's pending transaction count of each address
  calls,          \* direct invocations of getNextNonce: address and position
  issued,         \* the values getNextNonce returned, in the order it returned them
  orders,         \* the buy and sell calls: arguments, local variables and position
  wallet,         \* web3.eth.accounts.wallet: the addresses whose key it holds
  txs,            \* the transactions handed to the node, in the order they were sent
  fn              \* one call of a helper function on its own: what it read, its result

vars == <<nonceCache, chainPending, calls, issued, orders, wallet, txs, fn>>
engineVars == <<nonceCache, chainPending, calls, issued, orders, wallet, txs>>
orderVars == <<orders, wallet, txs>>

(***************************************************************************)
(* getNextNonce                                                            *)
(***************************************************************************)

\* The values web3.eth.getTransactionCount(address, 'pending') may return:
\* the node's pending count, or a lower one when the node lags behind.
PendingReads(a) == 0..chainPending[a]

\* A plausible slip: adopt the chain's value whenever it differs.
NonceAfterRead_AdoptChain(cache, a, onChainNonce) ==
  IF cache[a] = Undefined \/ cache[a] # onChainNonce
    THEN [cache EXCEPT ![a] = onChainNonce]
    ELSE [cache EXCEPT ![a] = cache[a] + 1]

\* A slip: one counter for all addresses.
NonceAfterRead_OneCounter(cache, a, onChainNonce) ==
  IF cache[a] = Undefined \/ cache[a] < onChainNonce
    THEN [b \in DOMAIN cache |-> onChainNonce]
    ELSE [b \in DOMAIN cache |-> cache[a] + 1]

\* The try block after the read: the cache is set to the chain's value when it
\* is absent or behind it, and incremented otherwise.
NonceAfterRead(cache, a, onChainNonce) ==
  IF cache[a] = Undefined \/ cache[a] < onChainNonce
    THEN [cache EXCEPT ![a] = onChainNonce]
    ELSE [cache EXCEPT ![a] = cache[a] + 1]

(***************************************************************************)
(* findBestFeeTier                                                         *)
(*                                                                         *)
(* What the function reads for one tier: the result of getPool in the      *)
(* first loop (pool), of liquidity() when the pool exists (liqOk, liq),    *)
(* and of getPool in the second loop (again).                              *)
(***************************************************************************)
PoolReads == {"error", "none", "exists"}
LiqReads == {0, MinLiquidity, MinLiquidity + 1}

AgainReads(pool) == IF pool = "error" THEN PoolReads ELSE {"error", pool}

TierProbes ==
  {[pool |-> p, liqOk |-> FALSE, liq |-> 0, again |-> g] :
      p \in PoolReads, g \in PoolReads} \cup
  {[pool |-> "exists", liqOk |-> TRUE, liq |-> l, again |-> g] :
      l \in LiqReads, g \in {"error", "exists"}}

ConsistentProbes == {p \in TierProbes : p.again \in AgainReads(p.pool)}

TierIdx == 1..Len(FeeTiers)

\* liquidity.gt(maxLiquidity) replaced by gte: a later tier wins a tie.
BetterLiquidity_Gte(liq, maxLiquidity) == liq >= maxLiquidity /\ liq > 0

\* liquidity.gt(maxLiquidity)
BetterLiquidity(liq, maxLiquidity) == liq > maxLiquidity

\* The first loop from tier i on: <<bestFeeTier, maxLiquidity>>.
RECURSIVE BestScan(_, _, _, _)
BestScan(probes, i, bestFeeTier, maxLiquidity) ==
  IF i > Len(FeeTiers) THEN <<bestFeeTier, maxLiquidity>>
  ELSE IF /\ probes[i].pool = "exists"
          /\ probes[i].liqOk
          /\ BetterLiquidity(probes[i].liq, maxLiquidity)
       THEN BestScan(probes, i + 1, FeeTiers[i], probes[i].liq)
       ELSE BestScan(probes, i + 1, bestFeeTier, maxLiquidity)

\* A slip: the second loop falls through to the lowest tier.
RECURSIVE FirstExisting_DefaultLowest(_, _)
FirstExisting_DefaultLowest(probes, i) ==
  IF i > Len(FeeTiers) THEN FEE_LOWEST
  ELSE IF probes[i].again = "exists" THEN FeeTiers[i]
       ELSE FirstExisting_DefaultLowest(probes, i + 1)

\* The second loop from tier i on: the first tier whose pool exists.
RECURSIVE FirstExisting(_, _)
FirstExisting(probes, i) ==
  IF i > Len(FeeTiers) THEN FEE_MEDIUM
  ELSE IF probes[i].again = "exists" THEN FeeTiers[i]
       ELSE FirstExisting(probes, i + 1)

findBestFeeTier(probes) ==
  LET r == BestScan(probes, 1, FEE_MEDIUM, 0)
  IN IF r[2] = 0 THEN FirstExisting(probes, 1) ELSE r[1]

(***************************************************************************)
(* validatePancakeV3Pool                                                   *)
(***************************************************************************)
\* BN's pow: the exponent's magnitude is used, its sign is not.
RECURSIVE Pow(_, _)
Pow(b, e) == IF e = 0 THEN 1 ELSE IF e < 0 THEN Pow(b, 0 - e) ELSE b * Pow(b, e - 1)
Q96 == Pow(2, Q96Bits)
SqrtPrices == {0, Q96 \div 2, Q96, 2 * Q96}

\* What one validation reads: getPool, liquidity() and slot0().
PoolViews ==
  {[pool |-> p, liqOk |-> FALSE, liq |-> 0, slot0Ok |-> FALSE, sqrtPriceX96 |-> 0] :
      p \in PoolReads} \cup
  {[pool |-> "exists", liqOk |-> TRUE, liq |-> l, slot0Ok |-> FALSE, sqrtPriceX96 |-> 0] :
      l \in LiqReads} \cup
  {[pool |-> "exists", liqOk |-> TRUE, liq |-> l, slot0Ok |-> TRUE, sqrtPriceX96 |-> s] :
      l \in LiqReads, s \in SqrtPrices}

\* A slip: lt for lte, a pool at the threshold passes.
LowLiquidity_Strict(liq) == liq < MinLiquidity

\* web3.utils.toBN(liquidity).lte(web3.utils.toBN('1000000'))
LowLiquidity(liq) == liq <= MinLiquidity

validatePancakeV3Pool(view) ==
  /\ view.pool = "exists"
  /\ view.liqOk
  /\ ~LowLiquidity(view.liq)
  /\ view.slot0Ok
  /\ view.sqrtPriceX96 # 0

\* feeTiers.filter(fee => fee !== feeTier) without the filter.
Alternatives_NoFilter(feeTier) == FeeTiers

\* feeTiers.filter(fee => fee !== feeTier)
Alternatives(feeTier) == SelectSeq(FeeTiers, LAMBDA fee : fee # feeTier)

\* A slip: the tier-pinned variants retry as well.
TriesAlternatives_Always(kind) == TRUE

\* Only buyToken and sellToken try the other tiers when validation fails.
TriesAlternatives(kind) == kind \in AutoKinds

(***************************************************************************)
(* checkForHoneypot                                                        *)
(***************************************************************************)
CodeViews ==
  {[ok |-> FALSE, big |-> FALSE, owner |-> FALSE, blacklist |-> FALSE, swap |-> FALSE]} \cup
  [ok : {TRUE}, big : BOOLEAN, owner : BOOLEAN, blacklist : BOOLEAN, swap : BOOLEAN]

\* A slip: one flagged substring is enough.
HasIndicators_Any(code) == code.owner \/ code.blacklist \/ code.swap

\* code.includes('owner') && code.includes('blacklist') && code.includes('swap')
HasIndicators(code) == code.owner /\ code.blacklist /\ code.swap

checkForHoneypot(code) ==
  /\ code.ok
  /\ (code.big \/ HasIndicators(code))

(***************************************************************************)
(* Quoting: the on-chain quoter, the pool-state estimate, the fixed        *)
(* minimum.                                                                *)
(***************************************************************************)
QuoterOutputs == {0, 10000}
QuoterResults ==
  {[status |-> "error", amountOut |-> 0], [status |-> "badFormat", amountOut |-> 0]} \cup
  {[status |-> "ok", amountOut |-> q] : q \in QuoterOutputs}

Slot0Reads ==
  {[ok |-> FALSE, sqrtPriceX96 |-> 0]} \cup
  {[ok |-> TRUE, sqrtPriceX96 |-> s] : s \in SqrtPrices}

\* Whether the code takes the branch that divides 2^192 by the squared price:
\* sortedTokens[0] === WBNB_ADDRESS for a buy, === tokenAddress for a sell.
Reciprocal(kind, tokenFirst) ==
  IF kind \in BuyKinds THEN ~tokenFirst ELSE tokenFirst

\* The price computation of the inner try: [ok, value]; ok is FALSE where the
\* code throws ('sqrtPriceSquared is zero').
PoolStateEstimate(kind, tokenFirst, decimals, sqrtPriceX96, amountIn) ==
  LET sqrtPriceSquared == sqrtPriceX96 * sqrtPriceX96
      decimalAdjustment == IF kind \in BuyKinds
                             THEN Pow(10, WeiDecimals - decimals)
                             ELSE Pow(10, decimals - WeiDecimals)
      divisionFactor == IF kind \in BuyKinds
                          THEN Pow(10, WeiDecimals)
                          ELSE Pow(10, decimals)
  IN IF Reciprocal(kind, tokenFirst) /\ sqrtPriceSquared = 0
       THEN [ok |-> FALSE, value |-> 0]
       ELSE LET price == IF Reciprocal(kind, tokenFirst)
                           THEN (Q96 * Q96) \div sqrtPriceSquared
                           ELSE sqrtPriceSquared \div (Q96 * Q96)
                rough == (amountIn * (price * decimalAdjustment)) \div divisionFactor
            IN [ok |-> TRUE, value |-> (rough * HaircutNum) \div HaircutDen]

\* A slip: the tier-pinned variants fall back like the auto-tier ones.
Level2FailureRaises_Never(kind, failure) == FALSE

\* Whether a failed pool-state estimate ends the order: a missing pool or a
\* failed read does in the tier-pinned variants, nothing does in the others.
Level2FailureRaises(kind, failure) ==
  kind \in PinnedKinds /\ failure \in {"poolReadError", "poolMissing", "slot0Error"}

\* The outcome of the estimate's reads: "value", or what failed.
Level2Outcome(kind, tokenFirst, decimals, amountIn, pool, slot0) ==
  IF pool = "error" THEN "poolReadError"
  ELSE IF pool = "none" THEN "poolMissing"
  ELSE IF ~slot0.ok THEN "slot0Error"
  ELSE IF ~PoolStateEstimate(kind, tokenFirst, decimals, slot0.sqrtPriceX96, amountIn).ok
    THEN "arithmeticError"
  ELSE "value"

\* A slip: an amount of zero is taken for a missing one.
QuoterUsable_Positive(q) == q.status = "ok" /\ q.amountOut > 0

\* The quoter call returned, and what it returned is an object with an
\* amountOut, a string or a number; anything else is thrown as an
\* unexpected format into the quoter's catch, like a failed call.
QuoterUsable(q) == q.status = "ok"

\* The whole quoting block: what it leaves in expectedOutputAmount and
\* usedFallback, whether it throws, and which level produced the amount.
Quote(kind, tokenFirst, decimals, amountIn, q, pool, slot0) ==
  IF QuoterUsable(q)
    THEN [raised |-> FALSE, expected |-> q.amountOut, usedFallback |-> FALSE,
          level |-> "OnChainQuoter", level2 |-> "notTried"]
  ELSE LET out == Level2Outcome(kind, tokenFirst, decimals, amountIn, pool, slot0)
       IN IF out = "value"
            THEN [raised |-> FALSE,
                  expected |-> PoolStateEstimate(kind, tokenFirst, decimals,
                                                slot0.sqrtPriceX96, amountIn).value,
                  usedFallback |-> TRUE, level |-> "PoolStateEstimate", level2 |-> out]
          ELSE IF Level2FailureRaises(kind, out)
            THEN [raised |-> TRUE, expected |-> 0, usedFallback |-> TRUE,
                  level |-> "none", level2 |-> out]
          ELSE [raised |-> FALSE, expected |-> MinimalFallback, usedFallback |-> TRUE,
                level |-> "MinimalFallback", level2 |-> out]

\* slippagePercent * 100 is a product of doubles.  For a slippage of bps
\* hundredths of a percent it is bps exactly, except that the double nearest
\* 64.01 times 100 is 6401.000000000001 (IEEE 754, round to nearest); the
\* offset is the sign of the product's error.  Defined for the slippages of
\* the model.
ProductOffset(bps) == IF bps = 6401 THEN 1 ELSE 0

\* 10000 - slippagePercent * 100, a double: the digits before the decimal
\* point of its decimal form, and whether it is a whole number.
SlippageFactor(bps) ==
  [whole |-> IF ProductOffset(bps) > 0 THEN BpsDivisor - bps - 1 ELSE BpsDivisor - bps,
   integral |-> ProductOffset(bps) = 0]

\* safeBN of a number: strValue.split('.')[0], then toBN
SafeBNOfNumber(x) == x.whole

\* web3.utils.toBN of a number throws unless its decimal form is all digits.
ToBNThrows(x) == ~x.integral

\* A slip: the slippage is added to the divisor, not taken from it.
MinOutput_AddsSlippage(expected, bps) == (expected * (BpsDivisor + bps)) \div BpsDivisor

\* bnExpectedOutput.mul(bnSlippageFactor).div(bnDivisor)
MinOutput(expected, bps) ==
  (expected * SafeBNOfNumber(SlippageFactor(bps))) \div BpsDivisor

\* The tier-pinned variants convert the factor with toBN, outside any try of
\* their own: the conversion's error ends the order.
MinOutputRaises(kind, bps) == kind \in PinnedKinds /\ ToBNThrows(SlippageFactor(bps))

\* A slip: the estimate is sent as the limit, without the buffer.
GasLimit_NoBuffer(estimatedGas) == estimatedGas

\* Math.floor(estimatedGas * 1.1)
GasLimit(estimatedGas) == (estimatedGas * 11) \div 10

IdleCall == [addr |-> 0, pc |-> "idle"]

\* getNextNonce(address) is called, as the c-th call made: it runs to its
\* first await.
CallStart(c, a) ==
  /\ calls[c].pc = "idle"
  /\ \A b \in CallIds : b < c => calls[b].pc # "idle"
  /\ calls' = [calls EXCEPT ![c] = [addr |-> a, pc |-> "reading"]]
  /\ UNCHANGED <<nonceCache, chainPending, issued, orderVars, fn>>

\* The read returns: the cache is updated and its new value returned.
CallReadOk(c) ==
  /\ calls[c].pc = "reading"
  /\ \E v \in PendingReads(calls[c].addr) :
       LET a == calls[c].addr
           cache2 == NonceAfterRead(nonceCache, a, v)
       IN /\ nonceCache' = cache2
          /\ calls' = [calls EXCEPT ![c].pc = "returned"]
          /\ issued' = Append(issued, [by |-> <<"call", c>>, addr |-> a, nonce |-> cache2[a], path |-> "try"])
  /\ UNCHANGED <<chainPending, orderVars, fn>>

\* The read throws: the catch block starts a second read.
CallReadFail(c) ==
  /\ calls[c].pc = "reading"
  /\ calls' = [calls EXCEPT ![c].pc = "fallback"]
  /\ UNCHANGED <<nonceCache, chainPending, issued, orderVars, fn>>

\* The second read returns: its value is returned, the cache is left alone.
CallFallbackOk(c) ==
  /\ calls[c].pc = "fallback"
  /\ \E v \in PendingReads(calls[c].addr) :
       /\ calls' = [calls EXCEPT ![c].pc = "returned"]
       /\ issued' = Append(issued, [by |-> <<"call", c>>, addr |-> calls[c].addr, nonce |-> v, path |-> "catch"])
  /\ UNCHANGED <<nonceCache, chainPending, orderVars, fn>>

\* The second read throws too: getNextNonce throws.
CallFallbackFail(c) ==
  /\ calls[c].pc = "fallback"
  /\ calls' = [calls EXCEPT ![c].pc = "threw"]
  /\ UNCHANGED <<nonceCache, chainPending, issued, orderVars, fn>>

\* Another transaction of the address reaches the node.
ChainAdvance(a) ==
  /\ chainPending[a] < MaxChainNonce
  /\ chainPending' = [chainPending EXCEPT ![a] = chainPending[a] + 1]
  /\ UNCHANGED <<nonceCache, calls, issued, orderVars, fn>>

NoCallInFlight == \A c \in CallIds : calls[c].pc \in {"idle", "returned", "threw"}

\* A call made only after every earlier call has returned or thrown.
SeqCallStart(c, a) ==
  /\ NoCallInFlight
  /\ CallStart(c, a)

(***************************************************************************)
(* The orders: buyToken, sellToken, buyTokenWithFeeTier,                   *)
(* sellTokenWithFeeTier.  The chain reads of one step that touch no state  *)
(* shared between calls are folded into that step.                         *)
(***************************************************************************)
SlippageBps == {PercentToBps, 6401, BpsDivisor}
TokenDecimals == {WeiDecimals}
GasEstimates == {100001}

\* toWei(amount, 'ether') and toTokenUnits(amount, decimals) of a whole amount
ToUnits(amount, decimals) == amount * Pow(10, decimals)
AmountReads == {0} \cup {ToUnits(k, WeiDecimals) : k \in 1..MaxAmount}

\* The arguments of a call and what the chain holds for it.  addr is the
\* address of the private key, 0 when privateKeyToAccount rejects the key;
\* specificFeeTier is 0 where the operation takes none; balance is the
\* wallet's balance of what the order spends (BNB for a buy, the token for a
\* sell); risky is what checkForHoneypot returns for the token.
OrderInputs ==
  {[kind |-> k, keyValid |-> FALSE, addr |-> 0, amountValid |-> TRUE, amount |-> 1,
    bps |-> PercentToBps, specificFeeTier |-> 0, tokenFirst |-> FALSE, decimals |-> WeiDecimals,
    balance |-> 0, risky |-> FALSE] :
      k \in Kinds} \cup
  {in \in [kind : Kinds, keyValid : {TRUE}, addr : KeyAddrs, amountValid : BOOLEAN,
           amount : 1..MaxAmount, bps : SlippageBps,
           specificFeeTier : {0} \cup {FeeTiers[i] : i \in TierIdx},
           tokenFirst : BOOLEAN, decimals : TokenDecimals,
           balance : AmountReads, risky : BOOLEAN] :
      /\ (in.kind \in AutoKinds) <=> (in.specificFeeTier = 0)
      /\ ~in.amountValid => in.amount = 1}

IdleOrder ==
  [kind |-> "none", keyValid |-> FALSE, addr |-> 0, amountValid |-> FALSE, amountIn |-> 0,
   bps |-> 0, specificFeeTier |-> 0, tokenFirst |-> FALSE, decimals |-> 0,
   pc |-> "idle", error |-> "", feeTier |-> 0, tryIdx |-> 0, validated |-> <<>>,
   expected |-> 0, usedFallback |-> FALSE, level |-> "none", level2 |-> "notTried",
   amountOutMin |-> 0, nonce |-> Undefined, needsApproval |-> FALSE,
   balance |-> 0, risky |-> FALSE, cause |-> "", removeThrows |-> FALSE]

AbsentOrder == [IdleOrder EXCEPT !.pc = "absent"]

\* A slip: a failed send is tried again.
OnError_RetrySend(ord, err) ==
  IF err = "SwapFailed" THEN [ord EXCEPT !.pc = "estimateGas"]
  ELSE [ord EXCEPT !.pc = "failed", !.error = err]

\* An error reaches the operation's catch block, which rethrows it.
OnError(ord, err) == [ord EXCEPT !.pc = "failed", !.error = err]

\* A slip: no cleanup in the catch block.
CleanupWallet_Skip(w, ord) == w

\* The catch block's cleanup: privateKeyToAccount throws again for a key it
\* rejected, or wallet.remove throws, and the error is swallowed; else the
\* address is removed.
CleanupWallet(w, ord) == IF ord.keyValid /\ ~ord.removeThrows THEN w \ {ord.addr} ELSE w

\* web3.eth.accounts.wallet.remove(walletAddress) after the swap was sent
RemoveFromWallet(w, a) == w \ {a}

\* sellToken reads tokenContract, which it never declares: the read throws a
\* ReferenceError.  sellTokenWithFeeTier declares it.
TokenContractBound(kind) == kind # "sellToken"

\* A slip: the swap reuses the approval's nonce.
NonceAfterApproval_Same(nonce) == nonce

\* nonce++ after the approval was sent
NonceAfterApproval(nonce) == nonce + 1

\* A slip: the approval error is thrown without the message of its cause.
ApprovalError_DropsMessage(ord, message) == ord

\* new Error(`Token approval failed: ${error.message}. ...`): the error
\* thrown by the catch around the allowance read and the approval keeps the
\* message of what it caught.
ApprovalError(ord, message) == [ord EXCEPT !.cause = message]

Raise(o, ord, err) ==
  /\ orders' = [orders EXCEPT ![o] = OnError(ord, err)]
  /\ wallet' = CleanupWallet(wallet, ord)

Goto(o, ord) ==
  /\ orders' = [orders EXCEPT ![o] = ord]
  /\ UNCHANGED wallet

nonceVars == <<nonceCache, chainPending, calls, issued>>

\* The call: the key is turned into an account and added to the wallet.
StartOrder(o, removeThrows) ==
  /\ orders[o].pc = "idle"
  /\ \E in \in OrderInputs :
       LET ord == [IdleOrder EXCEPT !.kind = in.kind, !.keyValid = in.keyValid,
                     !.addr = in.addr, !.amountValid = in.amountValid,
                     !.amountIn = ToUnits(in.amount, in.decimals), !.bps = in.bps,
                     !.specificFeeTier = in.specificFeeTier,
                     !.tokenFirst = in.tokenFirst, !.decimals = in.decimals,
                     !.balance = in.balance, !.risky = in.risky,
                     !.removeThrows = removeThrows]
       IN IF ~in.keyValid
            THEN Raise(o, ord, "InvalidKey")
            ELSE /\ orders' = [orders EXCEPT ![o] =
                       [ord EXCEPT !.pc = IF in.kind \in BuyKinds THEN "getBalance"
                                          ELSE "getTokenInfo"]]
                 /\ wallet' = wallet \cup {in.addr}
  /\ UNCHANGED <<nonceVars, txs, fn>>

\* An order on a wallet whose remove returns, as the library documents.
OrderStart(o) == StartOrder(o, FALSE)

\* An order on a wallet whose remove may throw for the order's account.
OrderStartAnyWallet(o) == \E removeThrows \in BOOLEAN : StartOrder(o, removeThrows)

\* A buy: web3.eth.getBalance returns or throws; the amount is converted
\* and compared with the balance.
BuyGetBalance(o) ==
  /\ orders[o].pc = "getBalance"
  /\ \E ok \in BOOLEAN :
       LET ord == orders[o]
           bal == ord.balance
       IN IF ~ok THEN Raise(o, ord, "ReadError")
          ELSE IF ~ord.amountValid THEN Raise(o, ord, "InvalidAmount")
          ELSE IF bal < ord.amountIn THEN Raise(o, ord, "InsufficientBalance")
          ELSE Goto(o, [ord EXCEPT !.pc = "getTokenInfo"])
  /\ UNCHANGED <<nonceVars, txs, fn>>

\* getTokenInfo returns or throws.  A buy goes on to its fee tier; a sell
\* converts the amount and starts the balance read.
GetTokenInfo(o) ==
  /\ orders[o].pc = "getTokenInfo"
  /\ \E ok \in BOOLEAN :
       LET ord == orders[o]
           tierStep == IF ord.kind \in AutoKinds
                         THEN [ord EXCEPT !.pc = "findBestFeeTier"]
                         ELSE [ord EXCEPT !.pc = "validate", !.feeTier = ord.specificFeeTier]
       IN IF ~ok THEN Raise(o, ord, "TokenInfoFailed")
          ELSE IF ord.kind \in BuyKinds THEN Goto(o, tierStep)
          ELSE IF ~ord.amountValid THEN Raise(o, ord, "InvalidAmount")
          ELSE IF ~TokenContractBound(ord.kind) THEN Raise(o, ord, "ReferenceError")
          ELSE Goto(o, [ord EXCEPT !.pc = "balanceOf"])
  /\ UNCHANGED <<nonceVars, txs, fn>>

\* A sell: balanceOf returns or throws; the balance must cover the amount.
SellBalanceOf(o) ==
  /\ orders[o].pc = "balanceOf"
  /\ \E ok \in BOOLEAN :
       LET ord == orders[o]
           bal == ord.balance
       IN IF ~ok THEN Raise(o, ord, "ReadError")
          ELSE IF bal < ord.amountIn THEN Raise(o, ord, "InsufficientBalance")
          ELSE IF ord.kind \in AutoKinds
            THEN Goto(o, [ord EXCEPT !.pc = "findBestFeeTier"])
          ELSE Goto(o, [ord EXCEPT !.pc = "validate", !.feeTier = ord.specificFeeTier])
  /\ UNCHANGED <<nonceVars, txs, fn>>

\* What findBestFeeTier can return, over everything its reads can return.
BestFeeTierResults == {findBestFeeTier(probes) : probes \in [TierIdx -> ConsistentProbes]}

\* let feeTier = await findBestFeeTier(...)
FindBestFeeTier(o) ==
  /\ orders[o].pc = "findBestFeeTier"
  /\ \E feeTier \in BestFeeTierResults :
       Goto(o, [orders[o] EXCEPT !.pc = "validate", !.feeTier = feeTier])
  /\ UNCHANGED <<nonceVars, txs, fn>>

\* A slip: the alternative that validated is not assigned.
ValidatedFeeTier_KeepsFirst(feeTier, tier) == feeTier

\* feeTier = alternativeFee: the tier that validated is the order's tier.
ValidatedFeeTier(feeTier, tier) == tier

\* One call of validatePancakeV3Pool returns: of the tier in feeTier first,
\* then of the alternatives in turn.
Validate(o) ==
  /\ orders[o].pc = "validate"
  /\ \E view \in PoolViews :
       LET ord == orders[o]
           alternatives == Alternatives(ord.feeTier)
           tier == IF ord.tryIdx = 0 THEN ord.feeTier ELSE alternatives[ord.tryIdx]
           valid == validatePancakeV3Pool(view)
           seen == [ord EXCEPT !.validated = Append(ord.validated, [tier |-> tier, ok |-> valid])]
       IN IF valid
            THEN Goto(o, [seen EXCEPT !.feeTier = ValidatedFeeTier(ord.feeTier, tier),
                            !.pc = IF ord.kind \in BuyKinds THEN "checkForHoneypot" ELSE "quote"])
          ELSE IF ~TriesAlternatives(ord.kind) THEN Raise(o, seen, "NoValidPoolForTier")
          ELSE IF ord.tryIdx < Len(alternatives)
            THEN Goto(o, [seen EXCEPT !.tryIdx = ord.tryIdx + 1])
          ELSE Raise(o, seen, "NoValidPool")
  /\ UNCHANGED <<nonceVars, txs, fn>>

\* A buy: checkForHoneypot returns.
CheckForHoneypot(o) ==
  /\ orders[o].pc = "checkForHoneypot"
  /\ \E code \in {c \in CodeViews : checkForHoneypot(c) = orders[o].risky} :
       IF checkForHoneypot(code)
         THEN Raise(o, orders[o], "Honeypot")
         ELSE Goto(o, [orders[o] EXCEPT !.pc = "quote"])
  /\ UNCHANGED <<nonceVars, txs, fn>>

\* The quoting block and the minimum output; getNextNonce is called and
\* starts its read.
QuoteAndMinOutput(o) ==
  /\ orders[o].pc = "quote"
  /\ \E q \in QuoterResults, pool \in PoolReads, slot0 \in Slot0Reads :
       LET ord == orders[o]
           r == Quote(ord.kind, ord.tokenFirst, ord.decimals, ord.amountIn, q, pool, slot0)
           quoted == [ord EXCEPT !.expected = r.expected, !.usedFallback = r.usedFallback,
                        !.level = r.level, !.level2 = r.level2]
       IN IF r.raised
            THEN Raise(o, quoted, "PriceEstimateFailed")
          ELSE IF MinOutputRaises(ord.kind, ord.bps)
            THEN Raise(o, quoted, "MinOutputFailed")
            ELSE Goto(o, [quoted EXCEPT !.amountOutMin = MinOutput(r.expected, ord.bps),
                            !.pc = "nonceRead"])
  /\ UNCHANGED <<nonceVars, txs, fn>>

\* A slip: the nonce is taken before the risk check.
AfterNonce_ThenRiskCheck(kind) == "checkForHoneypot"

\* What follows getNextNonce: the gas price read in a buy, the allowance read
\* in a sell.
AfterNonce(kind) == IF kind \in BuyKinds THEN "gasPrice" ELSE "allowance"

\* getNextNonce, called by an order: the read returns.
OrderNonceReadOk(o) ==
  /\ orders[o].pc = "nonceRead"
  /\ \E v \in PendingReads(orders[o].addr) :
       LET a == orders[o].addr
           cache2 == NonceAfterRead(nonceCache, a, v)
       IN /\ nonceCache' = cache2
          /\ issued' = Append(issued, [by |-> <<"order", o>>, addr |-> a,
                                       nonce |-> cache2[a], path |-> "try"])
          /\ Goto(o, [orders[o] EXCEPT !.nonce = cache2[a], !.pc = AfterNonce(orders[o].kind)])
  /\ UNCHANGED <<chainPending, calls, txs, fn>>

\* getNextNonce, called by an order: the read throws, the second read starts.
OrderNonceReadFail(o) ==
  /\ orders[o].pc = "nonceRead"
  /\ Goto(o, [orders[o] EXCEPT !.pc = "nonceFallback"])
  /\ UNCHANGED <<nonceVars, txs, fn>>

\* getNextNonce, called by an order: the second read returns.
OrderNonceFallbackOk(o) ==
  /\ orders[o].pc = "nonceFallback"
  /\ \E v \in PendingReads(orders[o].addr) :
       /\ issued' = Append(issued, [by |-> <<"order", o>>, addr |-> orders[o].addr,
                                    nonce |-> v, path |-> "catch"])
       /\ Goto(o, [orders[o] EXCEPT !.nonce = v, !.pc = AfterNonce(orders[o].kind)])
  /\ UNCHANGED <<nonceCache, chainPending, calls, txs, fn>>

\* getNextNonce, called by an order: the second read throws too.
OrderNonceFallbackFail(o) ==
  /\ orders[o].pc = "nonceFallback"
  /\ Raise(o, orders[o], "NonceReadFailed")
  /\ UNCHANGED <<nonceVars, txs, fn>>

\* A sell: the allowance read returns or throws.  needsApproval records that
\* the allowance was below the amount.
SellAllowance(o) ==
  /\ orders[o].pc = "allowance"
  /\ \E ok \in BOOLEAN, allowance \in AmountReads :
       LET ord == orders[o]
       IN IF ~ok THEN Raise(o, ApprovalError(ord, "AllowanceReadFailed"), "ApprovalFailed")
          ELSE IF allowance < ord.amountIn
            THEN Goto(o, [ord EXCEPT !.pc = "approveGasPrice", !.needsApproval = TRUE])
          ELSE Goto(o, [ord EXCEPT !.pc = "gasPrice"])
  /\ UNCHANGED <<nonceVars, txs, fn>>

\* A transaction handed to sendTransaction. estimatedGas is what the gas
\* limit was computed from, Undefined where the limit is a literal, and
\* estimateFailed whether it came from the catch of estimateGas.  signed
\* tells whether the wallet held the sender's key when send was called: web3
\* signs with the wallet's account, and passes the transaction unsigned to
\* the node, which refuses it, when the wallet has none for the address.
NewTx(o, type, estimatedGas, estimateFailed, gas) ==
  [order |-> o, type |-> type, addr |-> orders[o].addr, nonce |-> orders[o].nonce,
   status |-> "pending", feeTier |-> orders[o].feeTier, amountIn |-> orders[o].amountIn,
   amountOutMinimum |-> orders[o].amountOutMin, estimatedGas |-> estimatedGas,
   estimateFailed |-> estimateFailed, gas |-> gas, signed |-> orders[o].addr \in wallet]

\* A slip: the approval covers the sold amount only.
ApproveAmount_Exact(amountIn) == amountIn

\* toBN(2).pow(toBN(256)).sub(toBN(1)), in a word of Uint256Bits bits
MaxUint256 == Pow(2, Uint256Bits) - 1
ApproveAmount(amountIn) == MaxUint256

\* The approval handed to send: its amountIn is the amount approved, its gas
\* limit the literal 200000.
ApproveTx(o) ==
  [NewTx(o, "approve", Undefined, FALSE, 200000)
     EXCEPT !.amountIn = ApproveAmount(orders[o].amountIn)]

\* A sell: the gas price of the approval is read; the approval is sent.
SellApproveGasPrice(o) ==
  /\ orders[o].pc = "approveGasPrice"
  /\ \E ok \in BOOLEAN :
       IF ~ok
         THEN Raise(o, ApprovalError(orders[o], "GasPriceReadFailed"), "ApprovalFailed")
              /\ UNCHANGED txs
         ELSE /\ Goto(o, [orders[o] EXCEPT !.pc = "approveSend"])
              /\ txs' = Append(txs, ApproveTx(o))
  /\ UNCHANGED <<nonceVars, fn>>

\* The sent transactions of order o of the given type get the given status.
Settle(log, o, type, status) ==
  [i \in DOMAIN log |->
     IF log[i].order = o /\ log[i].type = type /\ log[i].status = "pending"
       THEN [log[i] EXCEPT !.status = status] ELSE log[i]]

\* The node takes a transaction whose nonce is the next one of its sender.
Accepts(a, nonce) == nonce = chainPending[a]

\* A send that throws leaves the pending count alone, or, when the
\* transaction was mined and reverted, has used its nonce.
CountsAfterFailure(a, nonce) ==
  {chainPending} \cup
  (IF Accepts(a, nonce) THEN {[chainPending EXCEPT ![a] = nonce + 1]} ELSE {})

\* The transaction of order o that is being sent was signed.
SentSigned(o, type) ==
  \E i \in DOMAIN txs :
    txs[i].order = o /\ txs[i].type = type /\ txs[i].status = "pending" /\ txs[i].signed

\* A sell: the approval's send returns.
ApproveSendOk(o) ==
  /\ orders[o].pc = "approveSend"
  /\ SentSigned(o, "approve")
  /\ Accepts(orders[o].addr, orders[o].nonce)
  /\ chainPending' = [chainPending EXCEPT ![orders[o].addr] = orders[o].nonce + 1]
  /\ txs' = Settle(txs, o, "approve", "ok")
  /\ Goto(o, [orders[o] EXCEPT !.nonce = NonceAfterApproval(orders[o].nonce),
                !.pc = "gasPrice"])
  /\ UNCHANGED <<nonceCache, calls, issued, fn>>

\* A sell: the approval's send throws.
ApproveSendFail(o) ==
  /\ orders[o].pc = "approveSend"
  /\ chainPending' \in CountsAfterFailure(orders[o].addr, orders[o].nonce)
  /\ txs' = Settle(txs, o, "approve", "failed")
  /\ Raise(o, ApprovalError(orders[o], "ApproveSendFailed"), "ApprovalFailed")
  /\ UNCHANGED <<nonceCache, calls, issued, fn>>

\* const gasPrice = await web3.eth.getGasPrice()
GasPrice(o) ==
  /\ orders[o].pc = "gasPrice"
  /\ \E ok \in BOOLEAN :
       IF ok THEN Goto(o, [orders[o] EXCEPT !.pc = "estimateGas"])
             ELSE Raise(o, orders[o], "ReadError")
  /\ UNCHANGED <<nonceVars, txs, fn>>

\* estimateGas returns or throws (then the default is used); the swap is sent.
EstimateGasAndSend(o) ==
  /\ orders[o].pc = "estimateGas"
  /\ \E ok \in BOOLEAN, g \in GasEstimates :
       LET estimatedGas == IF ok THEN g ELSE DefaultGas
       IN txs' = Append(txs, NewTx(o, "swap", estimatedGas, ~ok, GasLimit(estimatedGas)))
  /\ Goto(o, [orders[o] EXCEPT !.pc = "swapSend"])
  /\ UNCHANGED <<nonceVars, fn>>

\* The swap's send returns: the address is removed from the wallet and the
\* transaction hash returned.  The remove stands inside the operation's try:
\* when it throws, the catch block runs with its error.
SwapSendOk(o) ==
  /\ orders[o].pc = "swapSend"
  /\ SentSigned(o, "swap")
  /\ Accepts(orders[o].addr, orders[o].nonce)
  /\ chainPending' = [chainPending EXCEPT ![orders[o].addr] = orders[o].nonce + 1]
  /\ txs' = Settle(txs, o, "swap", "ok")
  /\ IF orders[o].removeThrows
       THEN Raise(o, orders[o], "CleanupFailed")
       ELSE /\ orders' = [orders EXCEPT ![o].pc = "done"]
            /\ wallet' = RemoveFromWallet(wallet, orders[o].addr)
  /\ UNCHANGED <<nonceCache, calls, issued, fn>>

\* The swap's send throws.
SwapSendFail(o) ==
  /\ orders[o].pc = "swapSend"
  /\ chainPending' \in CountsAfterFailure(orders[o].addr, orders[o].nonce)
  /\ txs' = Settle(txs, o, "swap", "failed")
  /\ Raise(o, orders[o], "SwapFailed")
  /\ UNCHANGED <<nonceCache, calls, issued, fn>>

\* No helper function has been called on its own.
NoFunction == [name |-> "none", pc |-> "idle"]

Init ==
  /\ nonceCache = [a \in Addrs |-> Undefined]
  /\ chainPending = [a \in Addrs |-> 0]
  /\ calls = [c \in CallIds |-> IdleCall]
  /\ issued = <<>>
  /\ orders = [o \in Orders |-> IF o = 1 THEN IdleOrder ELSE AbsentOrder]
  /\ wallet = {}
  /\ txs = <<>>
  /\ fn = NoFunction

OrderNext ==
  \/ \E o \in Orders : OrderStart(o)
  \/ \E o \in Orders : BuyGetBalance(o)
  \/ \E o \in Orders : GetTokenInfo(o)
  \/ \E o \in Orders : SellBalanceOf(o)
  \/ \E o \in Orders : FindBestFeeTier(o)
  \/ \E o \in Orders : Validate(o)
  \/ \E o \in Orders : CheckForHoneypot(o)
  \/ \E o \in Orders : QuoteAndMinOutput(o)
  \/ \E o \in Orders : OrderNonceReadOk(o)
  \/ \E o \in Orders : OrderNonceReadFail(o)
  \/ \E o \in Orders : OrderNonceFallbackOk(o)
  \/ \E o \in Orders : OrderNonceFallbackFail(o)
  \/ \E o \in Orders : SellAllowance(o)
  \/ \E o \in Orders : SellApproveGasPrice(o)
  \/ \E o \in Orders : ApproveSendOk(o)
  \/ \E o \in Orders : ApproveSendFail(o)
  \/ \E o \in Orders : GasPrice(o)
  \/ \E o \in Orders : EstimateGasAndSend(o)
  \/ \E o \in Orders : SwapSendOk(o)
  \/ \E o \in Orders : SwapSendFail(o)
  \/ \E a \in KeyAddrs : ChainAdvance(a)

CleanupNext ==
  \/ \E o \in Orders : OrderStartAnyWallet(o)
  \/ \E o \in Orders : BuyGetBalance(o)
  \/ \E o \in Orders : GetTokenInfo(o)
  \/ \E o \in Orders : SellBalanceOf(o)
  \/ \E o \in Orders : FindBestFeeTier(o)
  \/ \E o \in Orders : Validate(o)
  \/ \E o \in Orders : CheckForHoneypot(o)
  \/ \E o \in Orders : QuoteAndMinOutput(o)
  \/ \E o \in Orders : OrderNonceReadOk(o)
  \/ \E o \in Orders : OrderNonceReadFail(o)
  \/ \E o \in Orders : OrderNonceFallbackOk(o)
  \/ \E o \in Orders : OrderNonceFallbackFail(o)
  \/ \E o \in Orders : SellAllowance(o)
  \/ \E o \in Orders : SellApproveGasPrice(o)
  \/ \E o \in Orders : ApproveSendOk(o)
  \/ \E o \in Orders : ApproveSendFail(o)
  \/ \E o \in Orders : GasPrice(o)
  \/ \E o \in Orders : EstimateGasAndSend(o)
  \/ \E o \in Orders : SwapSendOk(o)
  \/ \E o \in Orders : SwapSendFail(o)
  \/ \E a \in KeyAddrs : ChainAdvance(a)

NonceNext ==
  \/ \E c \in CallIds, a \in Addrs : CallStart(c, a)
  \/ \E c \in CallIds : CallReadOk(c)
  \/ \E c \in CallIds : CallReadFail(c)
  \/ \E c \in CallIds : CallFallbackOk(c)
  \/ \E c \in CallIds : CallFallbackFail(c)
  \/ \E a \in Addrs : ChainAdvance(a)

SeqNonceNext ==
  \/ \E c \in CallIds, a \in Addrs : SeqCallStart(c, a)
  \/ \E c \in CallIds : CallReadOk(c)
  \/ \E c \in CallIds : CallReadFail(c)
  \/ \E c \in CallIds : CallFallbackOk(c)
  \/ \E c \in CallIds : CallFallbackFail(c)
  \/ \E a \in Addrs : ChainAdvance(a)

\* One order, of any of the four operations, against any chain.
Spec == Init /\ [][OrderNext]_vars

\* One order on a wallet whose remove may throw.
CleanupSpec == Init /\ [][CleanupNext]_vars

\* An order of the given operation that has come to its call of getNextNonce:
\* its key is in the wallet, its tier validated, its quote the quoter's.  All
\* it did so far were reads of the chain that no other order can change.
QuotedOrder(kind, addr) ==
  [IdleOrder EXCEPT !.kind = kind, !.keyValid = TRUE, !.addr = addr, !.amountValid = TRUE,
     !.amountIn = ToUnits(1, WeiDecimals), !.bps = PercentToBps,
     !.specificFeeTier = IF kind \in PinnedKinds THEN FEE_MEDIUM ELSE 0,
     !.decimals = WeiDecimals, !.balance = ToUnits(1, WeiDecimals),
     !.feeTier = FEE_MEDIUM, !.validated = <<[tier |-> FEE_MEDIUM, ok |-> TRUE]>>,
     !.expected = 10000, !.level = "OnChainQuoter",
     !.amountOutMin = MinOutput(10000, PercentToBps), !.pc = "nonceRead"]

\* Two orders in flight at once, each at its call of getNextNonce.  sellToken
\* never comes that far.
PairInit ==
  /\ nonceCache = [a \in Addrs |-> Undefined]
  /\ chainPending = [a \in Addrs |-> 0]
  /\ calls = [c \in CallIds |-> IdleCall]
  /\ issued = <<>>
  /\ \E kinds \in [Orders -> {k \in Kinds : TokenContractBound(k)}], addrs \in [Orders -> KeyAddrs] :
       /\ orders = [o \in Orders |-> QuotedOrder(kinds[o], addrs[o])]
       /\ wallet = {addrs[o] : o \in Orders}
  /\ txs = <<>>
  /\ fn = NoFunction

PairNext ==
  \/ \E o \in Orders : OrderNonceReadOk(o)
  \/ \E o \in Orders : OrderNonceReadFail(o)
  \/ \E o \in Orders : OrderNonceFallbackOk(o)
  \/ \E o \in Orders : OrderNonceFallbackFail(o)
  \/ \E o \in Orders : SellAllowance(o)
  \/ \E o \in Orders : SellApproveGasPrice(o)
  \/ \E o \in Orders : ApproveSendOk(o)
  \/ \E o \in Orders : ApproveSendFail(o)
  \/ \E o \in Orders : GasPrice(o)
  \/ \E o \in Orders : EstimateGasAndSend(o)
  \/ \E o \in Orders : SwapSendOk(o)
  \/ \E o \in Orders : SwapSendFail(o)

\* Two concurrent orders from their nonces on.
PairSpec == PairInit /\ [][PairNext]_vars

\* Concurrent calls of getNextNonce.
NonceSpec == Init /\ [][NonceNext]_vars

\* Calls of getNextNonce made one after the other.
SeqNonceSpec == Init /\ [][SeqNonceNext]_vars

(***************************************************************************)
(* The helper functions, each called on its own: fn holds the call's       *)
(* position, what it has read and, once it has returned, its result.       *)
(***************************************************************************)
CodeSizeThreshold == 50000

\* Lengths of the string getCode returns ("0x" for an address without code).
CodeLengths == {2, CodeSizeThreshold, CodeSizeThreshold + 1}

\* What getCode returns, or that it throws (ok is FALSE).
CodeReads ==
  {[ok |-> FALSE, length |-> 0, owner |-> FALSE, blacklist |-> FALSE, swap |-> FALSE]} \cup
  {r \in [ok : {TRUE}, length : CodeLengths, owner : BOOLEAN, blacklist : BOOLEAN,
          swap : BOOLEAN] :
     r.length = 2 => ~(r.owner \/ r.blacklist \/ r.swap)}

\* const unusualCodeSize = code.length > 50000
UnusualCodeSize(code) == code.length > CodeSizeThreshold

\* checkForHoneypot(tokenAddress) is called and starts its getCode read.
HoneypotCall ==
  /\ fn.pc = "idle"
  /\ fn' = [name |-> "checkForHoneypot", pc |-> "getCode"]
  /\ UNCHANGED engineVars

\* getCode returns, and the totalSupply read starts, or throws, and the catch
\* block returns false.
HoneypotGetCode ==
  /\ fn.name = "checkForHoneypot" /\ fn.pc = "getCode"
  /\ \E r \in CodeReads :
       fn' = IF r.ok
               THEN [name |-> fn.name, pc |-> "totalSupply", code |-> r]
               ELSE [name |-> fn.name, pc |-> "returned", code |-> r,
                     supplyOk |-> FALSE, result |-> FALSE]
  /\ UNCHANGED engineVars

\* totalSupply returns or throws ('.catch(() => '0')'); the result is
\* computed from the bytecode.
HoneypotTotalSupply ==
  /\ fn.name = "checkForHoneypot" /\ fn.pc = "totalSupply"
  /\ \E ok \in BOOLEAN :
       fn' = [name |-> fn.name, pc |-> "returned", code |-> fn.code, supplyOk |-> ok,
              result |-> UnusualCodeSize(fn.code) \/ HasIndicators(fn.code)]
  /\ UNCHANGED engineVars

\* findBestFeeTier(tokenA, tokenB) is called and returns, having made the
\* reads of its two loops.
FeeTierCall ==
  /\ fn.pc = "idle"
  /\ \E probes \in [TierIdx -> ConsistentProbes] :
       fn' = [name |-> "findBestFeeTier", pc |-> "returned", probes |-> probes,
              result |-> findBestFeeTier(probes)]
  /\ UNCHANGED engineVars

\* The reads validatePancakeV3Pool has not made yet.
NoPoolView ==
  [pool |-> "notRead", liqOk |-> FALSE, liq |-> 0, slot0Ok |-> FALSE, sqrtPriceX96 |-> 0]

PoolReturns(view, result) ==
  [name |-> "validatePancakeV3Pool", pc |-> "returned", view |-> view, result |-> result]

\* validatePancakeV3Pool(tokenAddress, feeTier) is called: the addresses are
\* sorted (toChecksumAddress throws for a malformed one, and the catch block
\* returns false) and the getPool read starts.
PoolCall ==
  /\ fn.pc = "idle"
  /\ \E addressOk \in BOOLEAN :
       fn' = IF addressOk
               THEN [name |-> "validatePancakeV3Pool", pc |-> "getPool", view |-> NoPoolView]
               ELSE PoolReturns(NoPoolView, FALSE)
  /\ UNCHANGED engineVars

\* getPool returns or throws.
PoolGetPool ==
  /\ fn.name = "validatePancakeV3Pool" /\ fn.pc = "getPool"
  /\ \E p \in PoolReads :
       LET view == [fn.view EXCEPT !.pool = p]
       IN fn' = IF p = "exists"
                  THEN [fn EXCEPT !.pc = "liquidity", !.view = view]
                  ELSE PoolReturns(view, FALSE)
  /\ UNCHANGED engineVars

\* liquidity() returns or throws.
PoolLiquidity ==
  /\ fn.name = "validatePancakeV3Pool" /\ fn.pc = "liquidity"
  /\ \E ok \in BOOLEAN, l \in LiqReads :
       LET view == IF ok THEN [fn.view EXCEPT !.liqOk = TRUE, !.liq = l] ELSE fn.view
       IN fn' = IF ok /\ ~LowLiquidity(l)
                  THEN [fn EXCEPT !.pc = "slot0", !.view = view]
                  ELSE PoolReturns(view, FALSE)
  /\ UNCHANGED engineVars

\* slot0() returns or throws.
PoolSlot0 ==
  /\ fn.name = "validatePancakeV3Pool" /\ fn.pc = "slot0"
  /\ \E s \in Slot0Reads :
       LET view == IF s.ok THEN [fn.view EXCEPT !.slot0Ok = TRUE, !.sqrtPriceX96 = s.sqrtPriceX96]
                          ELSE fn.view
       IN fn' = PoolReturns(view, s.ok /\ s.sqrtPriceX96 # 0)
  /\ UNCHANGED engineVars

(***************************************************************************)
(* toTokenUnits and fromTokenUnits.  A string is the sequence of its        *)
(* characters.                                                             *)
(***************************************************************************)
MaxWholeDigits == 2
MaxUnitDecimals == 3
MaxAmountChars == 6
AddrLen == 2

UnitDigits == {"0", "1"}

\* [3, 6, 9, 12, 15, 18].includes(decimals)
StandardDecimals == {3, 6, 9, 12, 15, 18}

DigitStrings(n) == UNION {[1..k -> UnitDigits] : k \in 0..n}

\* The canonical decimal strings with at most d fractional digits: no
\* leading zero in the whole part (but "0" itself), no trailing zero in the
\* fraction, no decimal point without a fraction.
CanonicalAmounts(d) ==
  LET wholes == {w \in DigitStrings(MaxWholeDigits) :
                   Len(w) > 0 /\ (Len(w) > 1 => w[1] # "0")}
      fractions == {f \in DigitStrings(d) : Len(f) > 0 /\ f[Len(f)] # "0"}
  IN wholes \cup {w \o <<".">> \o f : w \in wholes, f \in fractions}

\* str.replace(/^0+/, '') || '0'
RECURSIVE StripLeadingZeros(_)
StripLeadingZeros(str) ==
  IF str = <<>> THEN <<"0">>
  ELSE IF Head(str) = "0" THEN StripLeadingZeros(Tail(str))
  ELSE str

RECURSIVE StripTrailingZeros(_)
StripTrailingZeros(str) ==
  IF str # <<>> /\ str[Len(str)] = "0"
    THEN StripTrailingZeros(SubSeq(str, 1, Len(str) - 1))
    ELSE str

\* result.replace(/\.?0+$/, ''): the zeros the string ends with go, and the
\* decimal point before them; a string that ends with no zero is left as it
\* is.
TrimResult(str) ==
  LET cut == StripTrailingZeros(str)
  IN IF cut = str THEN str
     ELSE IF cut # <<>> /\ cut[Len(cut)] = "." THEN SubSeq(cut, 1, Len(cut) - 1)
     ELSE cut

\* The place of the first decimal point of str, 0 when it has none.
DotAt(str) ==
  IF \E k \in 1..Len(str) : str[k] = "."
    THEN CHOOSE k \in 1..Len(str) : str[k] = "." /\ \A j \in 1..(k - 1) : str[j] # "."
    ELSE 0

Zeros(n) == [k \in 1..n |-> "0"]

\* fractional.substring(0, decimals), or fractional padded with zeros
FitFraction(fractional, decimals) ==
  IF Len(fractional) > decimals THEN SubSeq(fractional, 1, decimals)
  ELSE fractional \o Zeros(decimals - Len(fractional))

\* amountStr.split('.')[1]: what stands between the first decimal point, at
\* place k, and the second one, or the end of the string.
SecondPart(amountStr, k) ==
  LET rest == SubSeq(amountStr, k + 1, Len(amountStr))
      j == DotAt(rest)
  IN IF j = 0 THEN rest ELSE SubSeq(rest, 1, j - 1)

\* What a conversion that throws leaves in place of a number.
Throws == <<"Error">>

\* web3.utils.toWei(amount, unit) for the unit of 10^decimals. The library
\* throws on a string with a character other than a digit or a decimal
\* point, on the lone decimal point, on a second decimal point and on a
\* fraction longer than the unit has digits; otherwise the whole part and
\* the fraction, padded to the unit's digits, are one number.
ToWeiThrows(amountStr, decimals) ==
  LET k == DotAt(amountStr)
  IN \/ amountStr = <<>>
     \/ \E i \in 1..Len(amountStr) : amountStr[i] \notin UnitDigits \cup {"."}
     \/ amountStr = <<".">>
     \/ k # 0 /\ DotAt(SubSeq(amountStr, k + 1, Len(amountStr))) # 0
     \/ k # 0 /\ Len(amountStr) - k > decimals

ToWei(amountStr, decimals) ==
  LET k == DotAt(amountStr)
      whole == IF k = 0 THEN amountStr ELSE SubSeq(amountStr, 1, k - 1)
      fractional == IF k = 0 THEN <<>> ELSE SubSeq(amountStr, k + 1, Len(amountStr))
  IN IF ToWeiThrows(amountStr, decimals) THEN Throws
     ELSE StripLeadingZeros(whole \o FitFraction(fractional, decimals))

\* The manual branch throws nothing for a string; the catch turns what
\* toWei throws into the function's own error.
toTokenUnits(amountStr, decimals) ==
  IF decimals \in StandardDecimals THEN ToWei(amountStr, decimals)
  ELSE LET k == DotAt(amountStr)
       IN IF k # 0
            THEN LET whole == SubSeq(amountStr, 1, k - 1)
                     fractional == FitFraction(SecondPart(amountStr, k), decimals)
                     trimmedWhole == StripLeadingZeros(whole)
                 IN StripLeadingZeros(trimmedWhole \o fractional)
            ELSE StripLeadingZeros(amountStr \o Zeros(decimals))

\* while (paddedAmount.length <= decimals) paddedAmount = '0' + paddedAmount
PadLeft(str, decimals) ==
  IF Len(str) <= decimals THEN Zeros(decimals + 1 - Len(str)) \o str ELSE str

\* web3.utils.fromWei(amount, unit) for the unit of 10^decimals: the whole
\* part, then the fraction without its trailing zeros, after a decimal point
\* when there is one.
FromWei(amountStr, decimals) ==
  LET padded == PadLeft(amountStr, decimals)
      decimalPos == Len(padded) - decimals
      fraction == StripTrailingZeros(SubSeq(padded, decimalPos + 1, Len(padded)))
  IN IF fraction = <<>> THEN SubSeq(padded, 1, decimalPos)
     ELSE SubSeq(padded, 1, decimalPos) \o <<".">> \o fraction

fromTokenUnits(amountStr, decimals) ==
  IF decimals \in StandardDecimals THEN FromWei(amountStr, decimals)
  ELSE IF amountStr = <<"0">> THEN <<"0">>
  ELSE LET paddedAmount == PadLeft(amountStr, decimals)
           decimalPos == Len(paddedAmount) - decimals
           result == SubSeq(paddedAmount, 1, decimalPos) \o <<".">>
                       \o SubSeq(paddedAmount, decimalPos + 1, Len(paddedAmount))
       IN TrimResult(result)

\* toTokenUnits(x, d), then fromTokenUnits of what it returned.
UnitsCall ==
  /\ fn.pc = "idle"
  /\ \E d \in 0..MaxUnitDecimals :
       \E x \in CanonicalAmounts(d) :
         fn' = [name |-> "toTokenUnits", pc |-> "returned", x |-> x, decimals |-> d,
                units |-> toTokenUnits(x, d),
                back |-> fromTokenUnits(toTokenUnits(x, d), d)]
  /\ UNCHANGED engineVars

\* The strings a caller can pass as an amount: digits, decimal points and a
\* character that is neither.
AmountChars == UnitDigits \cup {".", "x"}
AmountStrings == UNION {[1..n -> AmountChars] : n \in 1..MaxAmountChars}

\* toTokenUnits(x, d) of any string.
ToUnitsCall ==
  /\ fn.pc = "idle"
  /\ \E d \in 0..MaxUnitDecimals :
       \E x \in AmountStrings :
         fn' = [name |-> "toTokenUnitsOnly", pc |-> "returned", x |-> x, decimals |-> d,
                units |-> toTokenUnits(x, d)]
  /\ UNCHANGED engineVars

\* The characters of a checksummed address in the order of their character
\* codes: digits, then capitals, then small letters.
HexChars == <<"0", "1", "2", "3", "4", "5", "6", "7", "8", "9",
              "A", "B", "C", "D", "E", "F", "a", "b", "c", "d", "e", "f">>
CharCode(ch) == CHOOSE i \in DOMAIN HexChars : HexChars[i] = ch
HexValue(ch) == IF CharCode(ch) <= 16 THEN CharCode(ch) - 1 ELSE CharCode(ch) - 7

\* The leading AddrLen characters of web3.utils.toChecksumAddress(address).
ChecksumAddresses == [1..AddrLen -> {HexChars[i] : i \in DOMAIN HexChars}]
WBNB_ADDRESS == SubSeq(<<"b", "b", "4", "C", "d", "B">>, 1, AddrLen)
SameAddress(a, b) == \A i \in 1..AddrLen : HexValue(a[i]) = HexValue(b[i])
TokenAddresses == {a \in ChecksumAddresses : ~SameAddress(a, WBNB_ADDRESS)}

\* a < b on two strings of one length: the first place where they differ
\* decides, by character code.
StringLess(a, b) ==
  \E i \in 1..AddrLen :
    /\ \A j \in 1..(i - 1) : a[j] = b[j]
    /\ CharCode(a[i]) < CharCode(b[i])

\* a below b as 160-bit numbers.
AddressLess(a, b) ==
  \E i \in 1..AddrLen :
    /\ \A j \in 1..(i - 1) : HexValue(a[j]) = HexValue(b[j])
    /\ HexValue(a[i]) < HexValue(b[i])

\* sortedTokens of validatePancakeV3Pool and of the pool-state estimate.
SortedTokens(tokenAddress) ==
  IF StringLess(tokenAddress, WBNB_ADDRESS) THEN <<tokenAddress, WBNB_ADDRESS>>
  ELSE <<WBNB_ADDRESS, tokenAddress>>

\* The tokens findBestFeeTier hands to getPool: its own arguments, which are
\* (WBNB, token) in buyToken and (token, WBNB) in sellToken.
FeeTierTokens(kind, tokenAddress) ==
  IF kind \in BuyKinds THEN <<WBNB_ADDRESS, tokenAddress>> ELSE <<tokenAddress, WBNB_ADDRESS>>

LookupSites == {"findBestFeeTier", "validatePancakeV3Pool", "poolState"}

\* One factory.getPool call of an order of some kind for some token. Only
\* the orders without a pinned tier select a tier, and sellToken has thrown
\* before its first lookup.
GetPoolCall ==
  /\ fn.pc = "idle"
  /\ \E kind \in Kinds, site \in LookupSites, tokenAddress \in TokenAddresses :
       /\ TokenContractBound(kind)
       /\ site = "findBestFeeTier" => kind \in AutoKinds
       /\ fn' = [name |-> "getPool", pc |-> "returned", kind |-> kind, site |-> site,
                 tokenAddress |-> tokenAddress,
                 tokens |-> IF site = "findBestFeeTier" THEN FeeTierTokens(kind, tokenAddress)
                            ELSE SortedTokens(tokenAddress)]
  /\ UNCHANGED engineVars

\* The quoting block of an order of some kind, against any answer of the
\* quoter and of the pool.
QuoteCall ==
  /\ fn.pc = "idle"
  /\ \E kind \in Kinds, tokenFirst \in BOOLEAN, decimals \in TokenDecimals,
        amountIn \in AmountReads \ {0}, q \in QuoterResults, pool \in PoolReads,
        slot0 \in Slot0Reads :
       fn' = [name |-> "quote", pc |-> "returned", kind |-> kind, q |-> q, pool |-> pool,
              slot0 |-> slot0, tokenFirst |-> tokenFirst, amountIn |-> amountIn,
              result |-> Quote(kind, tokenFirst, decimals, amountIn, q, pool, slot0)]
  /\ UNCHANGED engineVars

FunctionNext ==
  \/ UnitsCall
  \/ QuoteCall
  \/ GetPoolCall
  \/ ToUnitsCall
  \/ HoneypotCall
  \/ HoneypotGetCode
  \/ HoneypotTotalSupply
  \/ FeeTierCall
  \/ PoolCall
  \/ PoolGetPool
  \/ PoolLiquidity
  \/ PoolSlot0

\* One call of one helper function, against any chain.
FunctionSpec == Init /\ [][FunctionNext]_vars

(***************************************************************************)
(* The claims.                                                             *)
(***************************************************************************)
Terminal == {"done", "failed"}
TxsOf(log, o) == SelectSeq(log, LAMBDA t : t.order = o)
SwapCount(log, o) == Cardinality({i \in DOMAIN log : log[i].order = o /\ log[i].type = "swap"})
IssuedTo(o) == {k \in DOMAIN issued : issued[k].by = <<"order", o>>}
Level2Failures == {"poolReadError", "poolMissing", "slot0Error", "arithmeticError"}

\* C1: under any interleaving of getNextNonce calls for one address, whether
\* the chain reads succeed or fail, no two calls are issued the same nonce.
C1_NoDuplicateNonce ==
  \A i, j \in DOMAIN issued :
    (i # j /\ issued[i].addr = issued[j].addr) => issued[i].nonce # issued[j].nonce

\* C2: calls of getNextNonce made one after the other, whose chain reads all
\* return a value (current or stale), return strictly increasing nonces for
\* each address.
C2_SequentialStrictlyIncreasing ==
  (\A k \in DOMAIN issued : issued[k].path = "try") =>
    \A i, j \in DOMAIN issued :
      (i < j /\ issued[i].addr = issued[j].addr) => issued[i].nonce < issued[j].nonce

\* Three calls for one address, the last of them issued a nonce above the
\* chain's pending count: its read was lower than what was already issued.
C2_Witness ==
  /\ Len(issued) = 3
  /\ \A k \in DOMAIN issued : issued[k].path = "try" /\ issued[k].addr = 1
  /\ issued[3].nonce > chainPending[1]
  /\ chainPending[1] > 0

\* C3: when an order returns or throws, at whatever step, its signing address
\* is not in the wallet.
C3_WalletCleanedOnExit ==
  [][\A o \in Orders :
       (orders[o].pc \notin Terminal /\ orders'[o].pc \in Terminal)
         => orders'[o].addr \notin wallet']_vars

\* An order whose key was added to the wallet has failed at its last step.
C3_Witness ==
  \E o \in Orders :
    /\ orders[o].pc = "failed" /\ orders[o].error = "SwapFailed"
    /\ orders[o].addr \notin wallet

\* C4: an order sends its swap at most once, and sends nothing once it has
\* failed.
C4_SwapAtMostOnce ==
  [][\A o \in Orders :
       /\ SwapCount(txs', o) <= 1
       /\ orders[o].pc = "failed" => Len(TxsOf(txs', o)) = Len(TxsOf(txs, o))]_vars

\* An order has failed after its approval and its swap were sent.
C4_Witness ==
  \E o \in Orders :
    /\ orders[o].pc = "failed"
    /\ SwapCount(txs, o) = 1
    /\ Len(TxsOf(txs, o)) = 2

\* C5: a sellToken call ends Failed only because the key or the amount is
\* invalid, token resolution failed, the balance does not cover the amount,
\* no tier validated, or a chain call failed; otherwise it reaches Done.
C5_SellTokenCompletes ==
  \A o \in Orders :
    (orders[o].kind = "sellToken" /\ orders[o].pc = "failed") =>
      orders[o].error \in {"InvalidKey", "InvalidAmount", "TokenInfoFailed",
                           "InsufficientBalance", "NoValidPool", "ReadError",
                           "NonceReadFailed", "ApprovalFailed", "SwapFailed"}

\* C6: the swap of a sell order that needed an approval is sent after the
\* approval's send returned, with a nonce above the approval's.
C6_SwapAfterApproval ==
  \A j \in DOMAIN txs :
    (txs[j].type = "swap" /\ orders[txs[j].order].needsApproval) =>
      \E i \in 1..(j - 1) :
        /\ txs[i].type = "approve" /\ txs[i].order = txs[j].order
        /\ txs[i].status = "ok"
        /\ txs[j].nonce > txs[i].nonce

\* A sell order's swap was sent after an approval.
C6_Witness ==
  \E j \in DOMAIN txs : txs[j].type = "swap" /\ orders[txs[j].order].needsApproval

C8_RetryOrder ==
  \A o \in Orders :
    (orders[o].kind \in AutoKinds /\ Len(orders[o].validated) > 0) =>
      LET log == orders[o].validated
          n == Len(log)
          expect == <<log[1].tier>> \o
                    SelectSeq(<<100, 500, 2500, 10000>>, LAMBDA t : t # log[1].tier)
      IN /\ n <= 4
         /\ \A k \in 1..n : log[k].tier = expect[k]
         /\ \A k \in 1..(n - 1) : ~log[k].ok
         /\ log[n].ok => /\ orders[o].feeTier = log[n].tier
                         /\ orders[o].pc # "validate"
         /\ (~log[n].ok /\ n < 4) => orders[o].pc = "validate"
         /\ (orders[o].pc = "failed" /\ orders[o].error = "NoValidPool")
              <=> (n = 4 /\ \A k \in 1..n : ~log[k].ok)
         /\ \A i \in DOMAIN txs : txs[i].order = o => (log[n].ok /\ txs[i].feeTier = log[n].tier)

\* A buy went through with the second alternative tier.
C8_Witness ==
  \E o \in Orders :
    /\ orders[o].kind = "buyToken" /\ orders[o].pc = "done"
    /\ Len(orders[o].validated) = 3

\* C9: the tier-pinned operations validate the caller's tier only; if it is
\* invalid the call fails at once: no other tier is validated or used, no
\* nonce is issued and nothing is sent.
C9_PinnedNoRetry ==
  \A o \in Orders :
    orders[o].kind \in PinnedKinds =>
      LET log == orders[o].validated
      IN /\ Len(log) <= 1
         /\ \A k \in DOMAIN log : log[k].tier = orders[o].specificFeeTier
         /\ orders[o].feeTier \in {0, orders[o].specificFeeTier}
         /\ \A i \in DOMAIN txs : txs[i].order = o => txs[i].feeTier = orders[o].specificFeeTier
         /\ (Len(log) = 1 /\ ~log[1].ok) =>
              /\ orders[o].pc = "failed" /\ orders[o].error = "NoValidPoolForTier"
              /\ TxsOf(txs, o) = <<>>
              /\ IssuedTo(o) = {}

\* A tier-pinned order failed on its tier's validation.
C9_Witness ==
  \E o \in Orders :
    /\ orders[o].kind \in PinnedKinds
    /\ orders[o].error = "NoValidPoolForTier"
    /\ Len(orders[o].validated) = 1

C11_InsufficientBalanceRaises ==
  \A o \in Orders :
    (orders[o].keyValid /\ orders[o].amountValid
       /\ orders[o].balance < orders[o].amountIn) =>
      /\ IssuedTo(o) = {}
      /\ TxsOf(txs, o) = <<>>
      /\ orders[o].pc # "done"
      /\ orders[o].pc = "failed" =>
           orders[o].error \in {"InsufficientBalance", "ReadError", "TokenInfoFailed"}

\* C12: in every buy and every sell, an order for a token the honeypot
\* heuristic flags sends no approval and no swap and does not complete.
C12_HoneypotBlocksOrder ==
  \A o \in Orders :
    orders[o].risky =>
      /\ TxsOf(txs, o) = <<>>
      /\ orders[o].pc # "done"

Returned(name) == fn.name = name /\ fn.pc = "returned"

\* C13 as stated: checkForHoneypot never throws; it returns true exactly when
\* the bytecode read succeeded and the bytecode is over the size threshold or
\* holds all three flagged substrings; and it returns false whenever a read
\* (of the bytecode or of the total supply) failed.
C13_HoneypotFalseOnAnyReadFailure ==
  Returned("checkForHoneypot") =>
    /\ fn.result <=> (fn.code.ok /\ (fn.code.length > 50000
                                     \/ (fn.code.owner /\ fn.code.blacklist /\ fn.code.swap)))
    /\ (~fn.code.ok \/ ~fn.supplyOk) => ~fn.result

\* C13 as the code has it: checkForHoneypot never throws; it returns true
\* exactly when the bytecode read succeeded and the bytecode is over the size
\* threshold or holds all three flagged substrings; a failed bytecode read
\* gives false, a failed total-supply read changes nothing.
C13_HoneypotIffBytecode ==
  /\ fn.name = "checkForHoneypot" => fn.pc \in {"getCode", "totalSupply", "returned"}
  /\ Returned("checkForHoneypot") =>
       /\ fn.result <=> (fn.code.ok /\ (fn.code.length > 50000
                                        \/ (fn.code.owner /\ fn.code.blacklist /\ fn.code.swap)))
       /\ ~fn.code.ok => ~fn.result

\* The total-supply read failed and the bytecode's three substrings made the
\* result true.
C13_Witness ==
  /\ Returned("checkForHoneypot")
  /\ fn.code.ok /\ ~fn.supplyOk /\ fn.result
  /\ fn.code.length <= 50000

\* The tiers whose pool exists and whose liquidity read returned a positive
\* value.
Reporting(probes) ==
  {i \in TierIdx : probes[i].pool = "exists" /\ probes[i].liqOk /\ probes[i].liq > 0}

\* C16: when some existing pool reports a positive liquidity, findBestFeeTier
\* returns the tier of the greatest reported liquidity, the lowest such tier
\* when several report it.
C16_GreatestLiquidity ==
  (Returned("findBestFeeTier") /\ Reporting(fn.probes) # {}) =>
    \E i \in Reporting(fn.probes) :
      /\ fn.result = FeeTiers[i]
      /\ \A j \in Reporting(fn.probes) :
           /\ fn.probes[j].liq <= fn.probes[i].liq
           /\ j < i => fn.probes[j].liq < fn.probes[i].liq

\* The first and the last tier report the same, greatest liquidity, the
\* tiers between them a smaller one: the first tier is returned.
C16_Witness ==
  /\ Returned("findBestFeeTier")
  /\ Reporting(fn.probes) = TierIdx
  /\ fn.probes[1].liq = fn.probes[4].liq
  /\ fn.probes[2].liq < fn.probes[1].liq /\ fn.probes[3].liq < fn.probes[1].liq
  /\ fn.result = 100

\* C17: when no pool exists at any tier (every getPool read returns the zero
\* address or throws), findBestFeeTier returns the 0.25% tier; it never
\* throws.
C17_DefaultsToMedium ==
  /\ fn.name = "findBestFeeTier" => fn.pc = "returned"
  /\ (Returned("findBestFeeTier")
        /\ \A i \in TierIdx : fn.probes[i].pool # "exists" /\ fn.probes[i].again # "exists")
       => fn.result = 2500

\* Every getPool read of the first loop threw, every one of the second
\* returned the zero address.
C17_Witness ==
  /\ Returned("findBestFeeTier")
  /\ \A i \in TierIdx : fn.probes[i].pool = "error" /\ fn.probes[i].again = "none"
  /\ fn.result = 2500

\* The tiers at which a getPool read found a pool.
Existing(probes) ==
  {i \in TierIdx : probes[i].pool = "exists" \/ probes[i].again = "exists"}

\* C18: when some pool exists and none reports a positive liquidity,
\* findBestFeeTier returns the lowest tier at which a pool was found.
C18_FirstExistingPool ==
  (Returned("findBestFeeTier") /\ Reporting(fn.probes) = {} /\ Existing(fn.probes) # {}) =>
    \E i \in Existing(fn.probes) :
      /\ fn.result = FeeTiers[i]
      /\ \A j \in Existing(fn.probes) : i <= j

\* C19: validatePancakeV3Pool never throws, and returns true exactly when
\* getPool returned a pool, liquidity() returned more than 1,000,000 and
\* slot0() returned a sqrtPriceX96 other than 0.
C19_ValidIffAllChecksPass ==
  /\ fn.name = "validatePancakeV3Pool" => fn.pc \in {"getPool", "liquidity", "slot0", "returned"}
  /\ Returned("validatePancakeV3Pool") =>
       (fn.result <=> /\ fn.view.pool = "exists"
                      /\ fn.view.liqOk /\ fn.view.liq > 1000000
                      /\ fn.view.slot0Ok /\ fn.view.sqrtPriceX96 # 0)

\* A pool whose liquidity is exactly the threshold was rejected.
C19_Witness ==
  /\ Returned("validatePancakeV3Pool")
  /\ fn.view.liqOk /\ fn.view.liq = 1000000
  /\ ~fn.result

\* C14: the swap an order sends has amountOutMinimum <= the expected output
\* its quoting ended with, in all four operations and at every quote level.
C14_MinOutputAtMostExpected ==
  \A i \in DOMAIN txs :
    txs[i].type = "swap" => txs[i].amountOutMinimum <= orders[txs[i].order].expected

\* A swap was sent whose minimum is positive and below an expected output
\* that came from the pool-state estimate.
C14_Witness ==
  \E i \in DOMAIN txs :
    /\ txs[i].type = "swap"
    /\ orders[txs[i].order].level = "PoolStateEstimate"
    /\ 0 < txs[i].amountOutMinimum
    /\ txs[i].amountOutMinimum < orders[txs[i].order].expected

\* C15: the amountOutMinimum of every swap sent is
\* floor(expectedOutput * (10000 - bps) / 10000), for the slippage of bps
\* hundredths of a percent the order was called with.
C15_MinOutputIsFloor ==
  \A i \in DOMAIN txs :
    txs[i].type = "swap" =>
      LET ord == orders[txs[i].order]
      IN txs[i].amountOutMinimum = (ord.expected * (10000 - ord.bps)) \div 10000

\* C20: for every decimals d, by the unit table or by hand, d = 0 included,
\* and every canonical decimal string x with at most d fractional digits,
\* fromTokenUnits(toTokenUnits(x, d), d) = x.
C20_UnitsRoundTrip ==
  Returned("toTokenUnits") => fn.back = fn.x

\* A decimal string: digits, then possibly a decimal point and more digits.
IsDecimalString(str) ==
  LET k == DotAt(str)
  IN /\ Len(str) > 0
     /\ \A i \in 1..Len(str) : i # k => str[i] \in UnitDigits
     /\ k # 1 /\ k # Len(str)
FractionDigits(str) == IF DotAt(str) = 0 THEN 0 ELSE Len(str) - DotAt(str)

\* C21: for every number of decimals d, toTokenUnits of a decimal string with
\* more than d fractional digits does not raise and returns the digits of the
\* whole part followed by the first d fractional digits, nothing rounded.
C21_TruncatesBeyondDecimals ==
  (Returned("toTokenUnitsOnly") /\ IsDecimalString(fn.x) /\ FractionDigits(fn.x) > fn.decimals)
    => /\ fn.units # Throws
       /\ fn.units = StripLeadingZeros(SubSeq(fn.x, 1, DotAt(fn.x) - 1)
                        \o SubSeq(fn.x, DotAt(fn.x) + 1, DotAt(fn.x) + fn.decimals))

\* C22: for every number of decimals d, toTokenUnits raises on every string
\* with a character that is neither a digit nor a decimal point, and raises
\* on no decimal string, however many fractional digits it has.
C22_RaisesIffNotNumeric ==
  Returned("toTokenUnitsOnly")
    => /\ (\E i \in 1..Len(fn.x) : fn.x[i] = "x") => fn.units = Throws
       /\ IsDecimalString(fn.x) => fn.units # Throws

\* C23: for each address the cached last-issued nonce never decreases (and,
\* once set, never becomes absent), under any interleaving of getNextNonce
\* calls whose chain reads succeed, lag or fail.
C23_CacheNeverDecreases ==
  [][\A a \in Addrs : nonceCache'[a] >= nonceCache[a]]_vars

\* The cache of address 1 was raised twice, and a call whose first read
\* failed returned in between or afterwards.
C23_Witness ==
  /\ nonceCache[1] >= 1
  /\ \E k \in DOMAIN issued : issued[k].addr = 1 /\ issued[k].path = "catch"
  /\ \E k \in DOMAIN issued : issued[k].addr = 1 /\ issued[k].path = "try" /\ issued[k].nonce = 1

\* The nonces handed out for address a before the k-th one.
IssuedBefore(k, a) == {j \in 1..(k - 1) : issued[j].addr = a}
LastBefore(k, a) == CHOOSE j \in IssuedBefore(k, a) : \A i \in IssuedBefore(k, a) : i <= j

\* C29: a call of getNextNonce whose chain read failed returns one past the
\* last nonce issued for the address when one was issued before, and the
\* chain's pending count only when none was.
C29_FailedReadReturnsLastPlusOne ==
  \A k \in DOMAIN issued :
    issued[k].path = "catch" =>
      IF IssuedBefore(k, issued[k].addr) # {}
        THEN issued[k].nonce = issued[LastBefore(k, issued[k].addr)].nonce + 1
        ELSE issued[k].nonce <= chainPending[issued[k].addr]

\* C24: every pool lookup issued in fee-tier selection, pool validation or
\* pool-state price estimation, for either trade direction, passes the two
\* token addresses in ascending address order.
C24_LookupsAscending ==
  Returned("getPool") => AddressLess(fn.tokens[1], fn.tokens[2])

\* What the quoting block can leave behind, over every order and every
\* answer of the quoter and of the pool.
QuoteOutcomes ==
  {Quote(kind, tokenFirst, decimals, amountIn, q, pool, slot0) :
     kind \in Kinds, tokenFirst \in BOOLEAN, decimals \in TokenDecimals,
     amountIn \in AmountReads \ {0}, q \in QuoterResults, pool \in PoolReads,
     slot0 \in Slot0Reads}

\* C25: what an order keeps about the source of its quote (the usedFallback
\* flag; the level of the model is an observer's note, nothing the code
\* stores) tells a MinimalFallback quote from a PoolStateEstimate or an
\* on-chain quote: no quoting that ended at another level leaves the same
\* record.
C25_FallbackLevelRecorded ==
  \A o \in Orders :
    orders[o].level = "MinimalFallback" =>
      \A r \in QuoteOutcomes :
        (~r.raised /\ r.usedFallback = orders[o].usedFallback) => r.level = "MinimalFallback"

\* C26: a failed gas estimation does not fail the order: the swap is sent all
\* the same, computed from the default 500000; and the gas limit of every
\* submitted swap is floor(1.1 * g), g being the estimate or that default.
C26_GasDefaultAndBuffer ==
  /\ \A i \in DOMAIN txs :
       txs[i].type = "swap" =>
         /\ txs[i].estimateFailed => txs[i].estimatedGas = 500000
         /\ txs[i].gas = (11 * txs[i].estimatedGas) \div 10
  /\ \A o \in Orders :
       orders[o].pc \in {"swapSend", "done"} \/ orders[o].error = "SwapFailed"
         => SwapCount(txs, o) = 1

\* One order's swap went out with the limit 550000 after its estimation
\* failed and was mined.
C26_Witness ==
  \E i \in DOMAIN txs :
    /\ txs[i].type = "swap" /\ txs[i].estimateFailed /\ txs[i].gas = 550000
    /\ txs[i].status = "ok"
    /\ orders[txs[i].order].pc = "done"

ApprovalSteps == {"allowance", "approveGasPrice", "approveSend"}

\* C27: a sell order that fails at its allowance read or at its approval
\* (the approval's gas price read or its send) raises the approval-failure
\* error, which carries the message of what failed, and neither has
\* submitted nor ever submits a swap transaction.
C27_ApprovalFailureRaises ==
  [][\A o \in Orders :
       /\ (orders[o].pc \in ApprovalSteps /\ orders'[o].pc = "failed") =>
            /\ orders'[o].kind \in SellKinds
            /\ orders'[o].error = "ApprovalFailed"
            /\ orders'[o].cause =
                 (CASE orders[o].pc = "allowance" -> "AllowanceReadFailed"
                    [] orders[o].pc = "approveGasPrice" -> "GasPriceReadFailed"
                    [] orders[o].pc = "approveSend" -> "ApproveSendFailed")
            /\ SwapCount(txs', o) = 0
       /\ orders[o].error = "ApprovalFailed" =>
            (SwapCount(txs', o) = 0 /\ orders'[o] = orders[o])]_vars

\* A sell whose approval was sent and failed has ended with the approval
\* error; another way there is a failed allowance read.
C27_Witness ==
  \E o \in Orders :
    /\ orders[o].kind \in SellKinds
    /\ orders[o].pc = "failed" /\ orders[o].error = "ApprovalFailed"
    /\ orders[o].cause = "ApproveSendFailed"
    /\ \E i \in DOMAIN txs : txs[i].order = o /\ txs[i].type = "approve" /\ txs[i].status = "failed"

\* C28: a failure of the credential cleanup never changes what the caller
\* is told: an order whose swap was sent and accepted returns its
\* transaction hash, and an order that failed raises the error of the step
\* that failed, never the cleanup's.
C28_CleanupNeverMasks ==
  \A o \in Orders :
    /\ orders[o].error # "CleanupFailed"
    /\ (\E i \in DOMAIN txs : txs[i].order = o /\ txs[i].type = "swap" /\ txs[i].status = "ok")
         => orders[o].pc = "done"

\* C30: when the quoter call returns a usable result, the expected output is
\* the quoter's amount as reported and no pool read is made for quoting; the
\* pool-state estimate is tried only after the quoter failed, and the
\* MinimalFallback amount is used only after the estimate, tried in its turn,
\* failed to produce a value.
C30_LevelsInOrder ==
  Returned("quote") =>
    /\ fn.q.status = "ok" =>
         /\ ~fn.result.raised
         /\ fn.result.expected = fn.q.amountOut
         /\ fn.result.level = "OnChainQuoter"
         /\ fn.result.level2 = "notTried"
    /\ fn.result.level2 # "notTried" => fn.q.status # "ok"
    /\ fn.result.level = "MinimalFallback" =>
         (fn.q.status # "ok" /\ fn.result.level2 \in Level2Failures)
    /\ fn.result.level = "PoolStateEstimate" =>
         (fn.q.status # "ok" /\ fn.result.level2 = "value")

\* The quoter answered 0 while the pool would have given an estimate: the
\* expected output is the quoter's 0.
C30_Witness ==
  /\ Returned("quote")
  /\ fn.q.status = "ok" /\ fn.q.amountOut = 0
  /\ fn.pool = "exists" /\ fn.slot0.ok
  /\ fn.result.expected = 0

\* C31: when the quoter has failed and the pool's slot0 reads a sqrtPriceX96
\* of 0, the quote is the MinimalFallback amount on either side of the pair:
\* no error is raised and no pool-state estimate results.
C31_ZeroPriceFallsBack ==
  (Returned("quote") /\ fn.q.status # "ok" /\ fn.pool = "exists"
     /\ fn.slot0.ok /\ fn.slot0.sqrtPriceX96 = 0)
    => /\ ~fn.result.raised
       /\ fn.result.level = "MinimalFallback"
       /\ fn.result.expected = 1000

\* C32: in each of the four operations, an order whose minimum-output
\* arithmetic fails (a conversion of it throws) goes on with an
\* amountOutMinimum of 1 base unit; it is not aborted by that failure.
C32_MinOutputFailureGivesOne ==
  \A o \in Orders :
    /\ orders[o].error # "MinOutputFailed"
    /\ (orders[o].level \in {"OnChainQuoter", "PoolStateEstimate", "MinimalFallback"}
          /\ ToBNThrows(SlippageFactor(orders[o].bps))
          /\ orders[o].kind \in PinnedKinds)
         => orders[o].amountOutMin = 1

ApprovalsOf(o) == {i \in DOMAIN txs : txs[i].order = o /\ txs[i].type = "approve"}
LastIssuedFor(a) ==
  issued[CHOOSE k \in DOMAIN issued :
           issued[k].addr = a /\ \A j \in DOMAIN issued : issued[j].addr = a => j <= k].nonce

\* C33: a sell order submits an approval only when the allowance it read is
\* below the amount sold, and then always does so before anything else
\* (unless reading the approval's gas price fails, which ends the order);
\* the approval is for 2^256 - 1.  A swap sent without an approval carries
\* the nonce getNextNonce last issued for the address.
C33_ApprovalIffAllowanceShort ==
  \A o \in Orders :
    /\ \A i \in ApprovalsOf(o) :
         /\ orders[o].kind \in SellKinds /\ orders[o].needsApproval
         /\ txs[i].amountIn = 2^Uint256Bits - 1
    /\ (orders[o].needsApproval /\ orders[o].pc # "approveGasPrice"
          /\ orders[o].cause # "GasPriceReadFailed")
         => Cardinality(ApprovalsOf(o)) = 1
    /\ \A j \in DOMAIN txs :
         (txs[j].order = o /\ txs[j].type = "swap" /\ orders[o].kind \in SellKinds
            /\ ApprovalsOf(o) = {})
           => (~orders[o].needsApproval /\ txs[j].nonce = LastIssuedFor(txs[j].addr))

\* A sell whose allowance covered the amount was sent without an approval;
\* its swap was accepted.
C33_Witness ==
  \E j \in DOMAIN txs :
    /\ txs[j].type = "swap" /\ txs[j].status = "ok"
    /\ orders[txs[j].order].kind \in SellKinds
    /\ ~orders[txs[j].order].needsApproval
    /\ ApprovalsOf(txs[j].order) = {}

\* C34: the fee tier of every submitted swap is one for which
\* validatePancakeV3Pool returned true earlier in the same order.
C34_SwapTierValidated ==
  \A j \in DOMAIN txs :
    txs[j].type = "swap" =>
      \E i \in DOMAIN orders[txs[j].order].validated :
        /\ orders[txs[j].order].validated[i].tier = txs[j].feeTier
        /\ orders[txs[j].order].validated[i].ok

\* A swap was sent on an alternative tier after the selected tier had failed
\* validation.
C34_Witness ==
  \E j \in DOMAIN txs :
    /\ txs[j].type = "swap"
    /\ Len(orders[txs[j].order].validated) > 1
    /\ ~orders[txs[j].order].validated[1].ok
    /\ txs[j].feeTier # orders[txs[j].order].validated[1].tier

\* The step is one of the c-th getNextNonce call after its start.
Stepping(c) == calls'[c] # calls[c] /\ calls[c].pc # "idle"

\* C35: a step of getNextNonce(a) leaves the cached nonce of every other
\* address as it was, and what it stores and returns for a is computed from
\* a's cached nonce and a's pending count alone, whatever calls for other
\* addresses are in flight.
C35_OtherAddressesUntouched ==
  [][\A c \in CallIds :
       Stepping(c) =>
         LET a == calls[c].addr
         IN /\ \A b \in Addrs \ {a} : nonceCache'[b] = nonceCache[b]
            /\ nonceCache'[a] \in {nonceCache[a], nonceCache[a] + 1} \cup (0..chainPending[a])
            /\ Len(issued') > Len(issued) =>
                 /\ issued'[Len(issued')].addr = a
                 /\ issued'[Len(issued')].nonce \in {nonceCache[a] + 1} \cup (0..chainPending[a])]_vars

\* Both addresses have a cached nonce while a call is still reading.
C35_Witness ==
  /\ nonceCache[1] # Undefined
  /\ nonceCache[2] # Undefined
  /\ \E c \in CallIds : calls[c].pc = "reading"

\* C36: across any interleaving of concurrent orders signed by one address,
\* no two submitted transactions carry the same nonce.
C36_NoDuplicateTxNonce ==
  \A i, j \in DOMAIN txs :
    (i # j /\ txs[i].addr = txs[j].addr) => txs[i].nonce # txs[j].nonce

\* Order o was issued a nonce and failed without submitting a transaction.
FailedUnsent(o) ==
  orders[o].pc = "failed" /\ IssuedTo(o) # {} /\ TxsOf(txs, o) = <<>>

\* C37: after an order was issued a nonce and failed before submitting any
\* transaction with it, the next nonce issued for its address is not above
\* the chain's pending count: no later transaction waits behind a nonce the
\* chain never sees.
C37_NoGapAfterUnsentNonce ==
  [][\A o, p \in Orders :
       (o # p /\ FailedUnsent(p) /\ orders[o].addr = orders[p].addr
          /\ orders[o].pc \in {"nonceRead", "nonceFallback"}
          /\ Len(issued') > Len(issued))
         => issued'[Len(issued')].nonce <= chainPending[orders[o].addr]]_vars

\* The steps at which an order has yet to call send for a transaction.
BeforeSend == {"nonceRead", "nonceFallback", "allowance", "approveGasPrice",
               "approveSend", "gasPrice", "estimateGas"}

\* C38: while an order still has a transaction to submit, its signing key is
\* in the wallet, whatever another order signed by the same key has done.
C38_KeyKeptForOtherOrder ==
  \A o \in Orders : orders[o].pc \in BeforeSend => orders[o].addr \in wallet

\* C39: when the quoter has failed and the pool's sqrtPriceX96 is not 0, the
\* pool-state estimate of a positive input amount is a positive expected
\* output.
C39_EstimatePositive ==
  (Returned("quote") /\ fn.q.status # "ok" /\ fn.pool = "exists" /\ fn.slot0.ok
     /\ fn.slot0.sqrtPriceX96 # 0 /\ fn.amountIn > 0 /\ ~fn.result.raised)
    => fn.result.expected > 0

PreNonceErrors == {"InvalidAmount", "InsufficientBalance", "TokenInfoFailed",
                   "NoValidPool", "NoValidPoolForTier", "Honeypot"}

\* C40: an order that failed for an invalid amount, an insufficient balance,
\* a token-info failure, the lack of a valid pool or a honeypot positive was
\* issued no nonce, has left the nonce cache of every address as it was and
\* has submitted no transaction.
C40_EarlyFailureTouchesNothing ==
  \A o \in Orders :
    (orders[o].pc = "failed" /\ orders[o].error \in PreNonceErrors) =>
      /\ IssuedTo(o) = {}
      /\ \A a \in Addrs : nonceCache[a] = Undefined
      /\ TxsOf(txs, o) = <<>>

\* A sell failed for want of a valid pool at its pinned tier.
C40_Witness ==
  \E o \in Orders :
    /\ orders[o].kind = "sellTokenWithFeeTier"
    /\ orders[o].pc = "failed" /\ orders[o].error = "NoValidPoolForTier"

====
